---- MODULE Spec2Model ----
(***************************************************************************)
(* Model of the katulong MCP host (src/src-tauri/src/mcp_server.rs):       *)
(* the accept loop (start_server), the per-connection reader and writer    *)
(* tasks (handle_connection), the request dispatcher (handle_mcp_request)  *)
(* and the two registries (register_tool / register_resource).             *)
(*                                                                         *)
(* A connection is named by the order in which the loop accepted it; its   *)
(* client_id (Uuid::new_v4) is fresh, so the connection number stands for  *)
(* it.  The only copy of a session's mpsc sender lives in the clients map, *)
(* so "c \in clients" is also "the sending half of c's channel is alive".  *)
(***************************************************************************)
EXTENDS Naturals, Integers, Sequences, FiniteSets, Bags, TLC

\* ---------------------------------------------------------------- bounds
\* The requests the readers decode in one behaviour, all sessions together.
MaxReqs == 2

\* The connections the listener can be offered, in the order it accepts them.
Conns == {1, 2}

\* ------------------------------------------------------- JSON and Option
None == [some |-> FALSE]
Some(v) == [some |-> TRUE, val |-> v]

JNull == [null |-> TRUE]
JStr(s) == [str |-> s]

\* ------------------------------------------------------------ registries
RegNames == {"toolsA"}
RegValues == {[name |-> "toolsA"]}
EmptyReg == [n \in {} |-> JNull]

\* Variant: an entry that exists is kept (entry().or_insert()).
Insert_KeepFirst(reg, name, value) ==
    [n \in (DOMAIN reg) \cup {name} |->
        IF n \in DOMAIN reg THEN reg[n] ELSE value]

\* Variant: the map is cleared before the entry is written.
Insert_Replace(reg, name, value) == [n \in {name} |-> value]

\* DashMap::insert: insert or overwrite the entry under name.
Insert(reg, name, value) ==
    [n \in (DOMAIN reg) \cup {name} |-> IF n = name THEN value ELSE reg[n]]

\* Variant: equal values are collected once.
ListValues_Dedup(reg) == [v \in {reg[n] : n \in DOMAIN reg} |-> 1]

\* map.iter().map(|e| e.value().clone()).collect(): every current value,
\* one per entry, in the map's unspecified order (hence a bag).
ListValues(reg) ==
    LET vals == {reg[n] : n \in DOMAIN reg}
    IN  [v \in vals |-> Cardinality({n \in DOMAIN reg : reg[n] = v})]

\* ------------------------------------------------------------ dispatcher
MethodNotFound == 0 - 32601

InitializeResult ==
    [protocolVersion |-> "2024-11-05",
     serverInfo |-> [name |-> "katulong-mcp-host", version |-> "0.1.0"],
     capabilities |-> [tools |-> [listChanged |-> TRUE],
                       resources |-> [listChanged |-> TRUE]]]

ToolsCallResult ==
    [content |-> << [type |-> "text",
                     text |-> "Tool execution not implemented yet"] >>]

ResourcesReadResult ==
    [contents |-> << [uri |-> "example://resource",
                      mimeType |-> "text/plain",
                      text |-> "Resource content not implemented yet"] >>]

McpResponse(id, result, error) == [id |-> id, result |-> result, error |-> error]

McpError(code, message, data) == [code |-> code, message |-> message, data |-> data]

InvalidParams == 0 - 32602

\* Variant: the error response does not carry the request's id.
handle_mcp_request_NullId(request, toolsReg, resourcesReg) ==
    CASE request.method = "initialize" ->
            McpResponse(request.id, Some(InitializeResult), None)
      [] request.method = "tools/list" ->
            McpResponse(request.id, Some([tools |-> ListValues(toolsReg)]), None)
      [] request.method = "tools/call" ->
            McpResponse(request.id, Some(ToolsCallResult), None)
      [] request.method = "resources/list" ->
            McpResponse(request.id,
                        Some([resources |-> ListValues(resourcesReg)]), None)
      [] request.method = "resources/read" ->
            McpResponse(request.id, Some(ResourcesReadResult), None)
      [] OTHER ->
            McpResponse(None, None,
                        Some(McpError(MethodNotFound,
                                      <<"Method not found: ", request.method>>,
                                      None)))

\* Variant: tools/call without params is refused.
handle_mcp_request_NeedsParams(request, toolsReg, resourcesReg) ==
    CASE request.method = "initialize" ->
            McpResponse(request.id, Some(InitializeResult), None)
      [] request.method = "tools/list" ->
            McpResponse(request.id, Some([tools |-> ListValues(toolsReg)]), None)
      [] request.method = "tools/call" ->
            IF request.params.some
            THEN McpResponse(request.id, Some(ToolsCallResult), None)
            ELSE McpResponse(request.id, None,
                             Some(McpError(InvalidParams, <<"Invalid params">>, None)))
      [] request.method = "resources/list" ->
            McpResponse(request.id,
                        Some([resources |-> ListValues(resourcesReg)]), None)
      [] request.method = "resources/read" ->
            McpResponse(request.id, Some(ResourcesReadResult), None)
      [] OTHER ->
            McpResponse(request.id, None,
                        Some(McpError(MethodNotFound,
                                      <<"Method not found: ", request.method>>,
                                      None)))

handle_mcp_request(request, toolsReg, resourcesReg) ==
    CASE request.method = "initialize" ->
            McpResponse(request.id, Some(InitializeResult), None)
      [] request.method = "tools/list" ->
            McpResponse(request.id, Some([tools |-> ListValues(toolsReg)]), None)
      [] request.method = "tools/call" ->
            McpResponse(request.id, Some(ToolsCallResult), None)
      [] request.method = "resources/list" ->
            McpResponse(request.id,
                        Some([resources |-> ListValues(resourcesReg)]), None)
      [] request.method = "resources/read" ->
            McpResponse(request.id, Some(ResourcesReadResult), None)
      [] OTHER ->
            McpResponse(request.id, None,
                        Some(McpError(MethodNotFound,
                                      <<"Method not found: ", request.method>>,
                                      None)))

\* ------------------------------------------------------------ wire codec
\* The payload of an inbound text frame: either no JSON object at all, or
\* a JSON object with an optional id, an optional method and optional
\* params.
Methods == {"tools/list", "unknown/method"}
PayloadIds == {Some(JStr("x"))}
PayloadParams == {None, Some(JStr("p"))}

NotJson == [json |-> FALSE]
JsonObject(id, method, params) ==
    [json |-> TRUE, id |-> id, method |-> method, params |-> params]

Payloads ==
    {NotJson}
    \cup {JsonObject(i, None, p) : i \in PayloadIds, p \in PayloadParams}
    \cup {JsonObject(i, Some(m), p) :
              i \in PayloadIds, m \in Methods, p \in PayloadParams}

DecodeErr == [ok |-> FALSE]

\* serde_json::from_str::<McpRequest>: the text must be a JSON object with
\* a method; id and params are optional.
Decode(p) ==
    IF p.json /\ p.method.some
    THEN [ok |-> TRUE,
          request |-> [id |-> p.id, method |-> p.method.val, params |-> p.params]]
    ELSE DecodeErr

\* serde_json::to_string(&response): an absent field is written as null,
\* in the response and in the error it carries.
JsonOf(opt) == IF opt.some THEN opt.val ELSE JNull

Serialize(response) ==
    [id |-> JsonOf(response.id),
     result |-> JsonOf(response.result),
     error |-> IF response.error.some
               THEN [code |-> response.error.val.code,
                     message |-> response.error.val.message,
                     data |-> JsonOf(response.error.val.data)]
               ELSE JNull]

\* A reader that is not inside handle_mcp_request.
Idle == [phase |-> "idle"]

\* ----------------------------------------------------------------- state
VARIABLES
    listener,    \* start_server: "init", "listening", "bind_failed", "stopped"
    naccepted,   \* connections the loop has accepted so far
    status,      \* handle_connection of c: where its reader is
    clients,     \* keys of the clients map
    tools,       \* the tools registry
    resources,   \* the resources registry
    queue,       \* c's unbounded channel: messages sent and not yet received
    writer,      \* c's writer task: "none", "recv", "send", "done"
    held,        \* the message c's writer has received and not yet sent
    wire,        \* the messages c's writer has written to the transport
    ndecoded,    \* how many requests c's reader has decoded
    lastText,    \* what became of the last text frame c's reader took:
                 \* "none" (no text frame yet), "request", "malformed"
    disp,        \* the call of handle_mcp_request c's reader is in, when
                 \* the call is followed entry by entry
    lastTool,    \* the definition last passed to register_tool, per name
    lastRes      \* the definition last passed to register_resource, per name

vars == <<listener, naccepted, status, clients, tools, resources,
          queue, writer, held, wire, ndecoded, lastText,
          disp, lastTool, lastRes>>

Init ==
    /\ listener = "init"
    /\ naccepted = 0
    /\ status = [c \in Conns |-> "free"]
    /\ clients = {}
    /\ tools = EmptyReg
    /\ resources = EmptyReg
    /\ queue = [c \in Conns |-> <<>>]
    /\ writer = [c \in Conns |-> "none"]
    /\ held = [c \in Conns |-> <<>>]
    /\ wire = [c \in Conns |-> <<>>]
    /\ ndecoded = [c \in Conns |-> 0]
    /\ lastText = [c \in Conns |-> "none"]
    /\ disp = [c \in Conns |-> Idle]
    /\ lastTool = EmptyReg
    /\ lastRes = EmptyReg

sessVars == <<status, clients, queue, writer, held, wire, ndecoded, lastText>>
regVars == <<tools, resources>>
loopVars == <<listener, naccepted>>
probeVars == <<disp, lastTool, lastRes>>

\* ----------------------------------------------------------- server loop
\* TcpListener::bind(address).await? succeeded.
BindOk ==
    /\ listener = "init"
    /\ listener' = "listening"
    /\ UNCHANGED <<naccepted, sessVars, regVars, probeVars>>

\* TcpListener::bind(address).await? failed: start_server returns the error.
BindFail ==
    /\ listener = "init"
    /\ listener' = "bind_failed"
    /\ UNCHANGED <<naccepted, sessVars, regVars, probeVars>>

\* Variant: the loop awaits handle_connection itself instead of spawning it.
LoopReady_Blocking ==
    /\ listener = "listening"
    /\ \A c \in Conns : status[c] \notin {"handshake", "running"}

\* The loop is parked at listener.accept().await: the session it spawned
\* last runs as its own task and is never awaited.
LoopReady == listener = "listening"

\* accept() returned a connection: spawn handle_connection for it and loop.
Accept ==
    /\ LoopReady
    /\ naccepted < Cardinality(Conns)
    /\ naccepted' = naccepted + 1
    /\ status' = [status EXCEPT ![naccepted + 1] = "handshake"]
    /\ UNCHANGED <<listener, clients, queue, writer, held, wire, ndecoded,
                   lastText, regVars, probeVars>>

\* accept() returned Err: `while let Ok(..)` ends and start_server returns Ok.
AcceptError ==
    /\ LoopReady
    /\ listener' = "stopped"
    /\ UNCHANGED <<naccepted, sessVars, regVars, probeVars>>

\* What start_server has returned to its caller (lib.rs logs it): the bind
\* error, Ok(()) once accept() failed, or nothing while the loop runs.
StartServerResult ==
    CASE listener = "bind_failed" -> "Err"
      [] listener = "stopped" -> "Ok"
      [] OTHER -> "pending"

\* ------------------------------------------------------------- handshake
\* accept_async(stream).await? failed: handle_connection returns the error,
\* which the spawned task logs.
HandshakeFail(c) ==
    /\ status[c] = "handshake"
    /\ status' = [status EXCEPT ![c] = "hs_failed"]
    /\ UNCHANGED <<loopVars, clients, queue, writer, held, wire, ndecoded,
                   lastText, regVars, probeVars>>

\* Variant: the sender is not inserted under the session's client_id.
HandshakeOk_NoInsert(c) ==
    /\ status[c] = "handshake"
    /\ status' = [status EXCEPT ![c] = "running"]
    /\ writer' = [writer EXCEPT ![c] = "recv"]
    /\ UNCHANGED <<loopVars, clients, queue, held, wire, ndecoded, lastText,
                   regVars, probeVars>>

\* accept_async succeeded: create the channel, insert the sender under the
\* fresh client_id, spawn the writer, enter the reader loop.
HandshakeOk(c) ==
    /\ status[c] = "handshake"
    /\ status' = [status EXCEPT ![c] = "running"]
    /\ clients' = clients \cup {c}
    /\ writer' = [writer EXCEPT ![c] = "recv"]
    /\ UNCHANGED <<loopVars, queue, held, wire, ndecoded, lastText, regVars, probeVars>>

\* ---------------------------------------------------------------- reader
RECURSIVE SumOver(_, _)
SumOver(f, S) ==
    IF S = {} THEN 0
    ELSE LET x == CHOOSE y \in S : TRUE IN f[x] + SumOver(f, S \ {x})

TotalDecoded == SumOver(ndecoded, Conns)

\* Variant: the entry is looked up under a key it was not inserted under.
Targets_Missing(c, cl) == {}

\* Variant: the response goes to every entry of the map.
Targets_Broadcast(c, cl) == cl

\* clients.get(&client_id): the entries the response is sent to.
Targets(c, cl) == IF c \in cl THEN {c} ELSE {}

\* client_tx.send(msg) on every target; a send to a channel whose receiver
\* was dropped fails and the failure is ignored (`let _ =`).
Enqueue(c, msg) ==
    [d \in Conns |->
        IF d \in Targets(c, clients) /\ writer[d] # "done"
        THEN Append(queue[d], msg)
        ELSE queue[d]]

\* Variant: a text that does not decode ends the session.
OnDecodeError_Disconnect(c) ==
    /\ lastText' = [lastText EXCEPT ![c] = "malformed"]
    /\ clients' = clients \ {c}
    /\ status' = [status EXCEPT ![c] = "closed"]
    /\ UNCHANGED <<queue, ndecoded>>

\* The text did not decode as a request: nothing is done with it.
OnDecodeError(c) ==
    /\ lastText' = [lastText EXCEPT ![c] = "malformed"]
    /\ UNCHANGED <<status, clients, queue, ndecoded>>

\* A message carries, beside its text, the session whose reader produced
\* it, the number of the request it answers and that request's id and method.
Message(c, request, response) ==
    [text |-> Serialize(response),
     sess |-> c,
     seq |-> ndecoded[c] + 1,
     req |-> [id |-> request.id, method |-> request.method]]

\* Variant: a method-not-found error ends the session.
OnRequest_FatalError(c, request) ==
    LET response == handle_mcp_request(request, tools, resources) IN
    /\ TotalDecoded < MaxReqs
    /\ ndecoded' = [ndecoded EXCEPT ![c] = ndecoded[c] + 1]
    /\ queue' = Enqueue(c, Message(c, request, response))
    /\ lastText' = [lastText EXCEPT ![c] = "request"]
    /\ IF response.error.some
       THEN /\ clients' = clients \ {c}
            /\ status' = [status EXCEPT ![c] = "closed"]
       ELSE UNCHANGED <<status, clients>>

\* The text decoded: dispatch, serialize, look the session up, send.
OnRequest(c, request) ==
    /\ TotalDecoded < MaxReqs
    /\ ndecoded' = [ndecoded EXCEPT ![c] = ndecoded[c] + 1]
    /\ queue' = Enqueue(c, Message(c, request,
                                   handle_mcp_request(request, tools, resources)))
    /\ lastText' = [lastText EXCEPT ![c] = "request"]
    /\ UNCHANGED <<status, clients>>

\* Message::Text(text)
ReadText(c) ==
    /\ status[c] = "running"
    /\ \E p \in Payloads :
          IF Decode(p).ok THEN OnRequest(c, Decode(p).request)
                          ELSE OnDecodeError(c)
    /\ UNCHANGED <<loopVars, writer, held, wire, regVars, probeVars>>

\* Any other frame kind (binary, ping, pong): `_ => {}`.
ReadOther(c) ==
    /\ status[c] = "running"
    /\ UNCHANGED <<loopVars, sessVars, regVars, probeVars>>

\* Variant: the entry is removed but the loop is not left.
ReadClose_NoBreak(c) ==
    /\ status[c] = "running"
    /\ clients' = clients \ {c}
    /\ UNCHANGED <<loopVars, status, queue, writer, held, wire, ndecoded,
                   lastText, regVars, probeVars>>

\* Variant: the whole map is cleared instead of one entry.
ReadClose_ClearAll(c) ==
    /\ status[c] = "running"
    /\ clients' = {}
    /\ status' = [status EXCEPT ![c] = "closed"]
    /\ UNCHANGED <<loopVars, queue, writer, held, wire, ndecoded, lastText,
                   regVars, probeVars>>

\* Message::Close(_): remove the session's entry and leave the loop.
ReadClose(c) ==
    /\ status[c] = "running"
    /\ clients' = clients \ {c}
    /\ status' = [status EXCEPT ![c] = "closed"]
    /\ UNCHANGED <<loopVars, queue, writer, held, wire, ndecoded, lastText,
                   regVars, probeVars>>

\* `msg?` on a transport read error: handle_connection returns the error.
ReadError(c) ==
    /\ status[c] = "running"
    /\ status' = [status EXCEPT ![c] = "error"]
    /\ UNCHANGED <<loopVars, clients, queue, writer, held, wire, ndecoded,
                   lastText, regVars, probeVars>>

\* ws_receiver.next() returned None: the loop ends, handle_connection
\* returns Ok.
ReadEof(c) ==
    /\ status[c] = "running"
    /\ status' = [status EXCEPT ![c] = "eof"]
    /\ UNCHANGED <<loopVars, clients, queue, writer, held, wire, ndecoded,
                   lastText, regVars, probeVars>>

\* ---------------------------------------------------------------- writer
\* Variant: the newest message is taken first.
Recv_Lifo(q) == [msg |-> q[Len(q)], rest |-> SubSeq(q, 1, Len(q) - 1)]

\* rx.recv() with a message buffered: the oldest one, and what stays queued.
Recv(q) == [msg |-> Head(q), rest |-> Tail(q)]

WriterRecv(c) ==
    /\ writer[c] = "recv"
    /\ queue[c] # <<>>
    /\ held' = [held EXCEPT ![c] = <<Recv(queue[c]).msg>>]
    /\ queue' = [queue EXCEPT ![c] = Recv(queue[c]).rest]
    /\ writer' = [writer EXCEPT ![c] = "send"]
    /\ UNCHANGED <<loopVars, status, clients, wire, ndecoded, lastText, regVars, probeVars>>

\* rx.recv() returned None: nothing is buffered and the sender was dropped.
WriterQueueClosed(c) ==
    /\ writer[c] = "recv"
    /\ queue[c] = <<>>
    /\ c \notin clients
    /\ writer' = [writer EXCEPT ![c] = "done"]
    /\ UNCHANGED <<loopVars, status, clients, queue, held, wire, ndecoded,
                   lastText, regVars, probeVars>>

\* Variant: the transport takes data frames after the peer's close frame.
SendAccepted_Always(c) == TRUE

\* Whether ws_sender.send(message) can succeed: once the peer's close frame
\* has been read, the websocket refuses every further data frame
\* (tungstenite: "sending after closing is not allowed").
SendAccepted(c) == status[c] # "closed"

\* ws_sender.send(message).await succeeded.
WriterSendOk(c) ==
    /\ writer[c] = "send"
    /\ SendAccepted(c)
    /\ wire' = [wire EXCEPT ![c] = Append(wire[c], held[c][1])]
    /\ held' = [held EXCEPT ![c] = <<>>]
    /\ writer' = [writer EXCEPT ![c] = "recv"]
    /\ UNCHANGED <<loopVars, status, clients, queue, ndecoded, lastText, regVars, probeVars>>

\* Variant: an aborting writer removes the session's entry itself.
WriterSendFail_Remove(c) ==
    /\ writer[c] = "send"
    /\ writer' = [writer EXCEPT ![c] = "done"]
    /\ held' = [held EXCEPT ![c] = <<>>]
    /\ queue' = [queue EXCEPT ![c] = <<>>]
    /\ clients' = clients \ {c}
    /\ UNCHANGED <<loopVars, status, wire, ndecoded, lastText, regVars, probeVars>>

\* ws_sender.send(message).await failed: break; the task ends and drops the
\* receiver with whatever is still buffered.
WriterSendFail(c) ==
    /\ writer[c] = "send"
    /\ writer' = [writer EXCEPT ![c] = "done"]
    /\ held' = [held EXCEPT ![c] = <<>>]
    /\ queue' = [queue EXCEPT ![c] = <<>>]
    /\ UNCHANGED <<loopVars, status, clients, wire, ndecoded, lastText, regVars, probeVars>>

\* ------------------------------------------------------- control surface
\* Variant: a tool is written into both registries.
register_tool_Both(name, tool) ==
    /\ tools' = Insert(tools, name, tool)
    /\ resources' = Insert(resources, name, tool)
    /\ lastTool' = [n \in DOMAIN lastTool \cup {name} |->
                       IF n = name THEN tool ELSE lastTool[n]]
    /\ UNCHANGED <<loopVars, sessVars, disp, lastRes>>

\* A registration that completes while a call of handle_mcp_request is
\* listing the same registry: the call counts it (up to "two or more") and,
\* as long as it is the only one, keeps the registry as it left it.
Noted(d, method, regAfter) ==
    [c \in Conns |->
        IF d[c].phase = "run" /\ d[c].request.method = method
        THEN [d[c] EXCEPT !.nreg = IF @ < 2 THEN @ + 1 ELSE @,
                          !.post = IF d[c].nreg = 0 THEN regAfter ELSE EmptyReg]
        ELSE d[c]]

register_tool(name, tool) ==
    /\ tools' = Insert(tools, name, tool)
    /\ lastTool' = [n \in DOMAIN lastTool \cup {name} |->
                       IF n = name THEN tool ELSE lastTool[n]]
    /\ disp' = Noted(disp, "tools/list", tools')
    /\ UNCHANGED <<loopVars, sessVars, resources, lastRes>>

register_resource(name, resource) ==
    /\ resources' = Insert(resources, name, resource)
    /\ lastRes' = [n \in DOMAIN lastRes \cup {name} |->
                      IF n = name THEN resource ELSE lastRes[n]]
    /\ disp' = Noted(disp, "resources/list", resources')
    /\ UNCHANGED <<loopVars, sessVars, tools, lastTool>>

\* ------------------------------------- the dispatcher, entry by entry
\* handle_mcp_request runs on its reader's thread while other readers and
\* the control surface run on theirs.  DashMap::iter takes the map's shards
\* one after the other, so a listing reads each name's entry at a moment of
\* its own; the call is followed here from its entry, over one read per
\* name, to the response it builds from what it read.
AllNames == {"toolsA", "toolsB"}
AllValues == {[name |-> "toolsA"], [name |-> "other"]}
AllMethods == {"initialize", "tools/list", "tools/call", "resources/list",
               "resources/read", "unknown/method"}
AllIds == {None, Some(JNull), Some(JStr("x"))}
AllRequests == [id : AllIds, method : AllMethods, params : PayloadParams]
ListRequests == [id : {Some(JStr("x"))}, method : {"tools/list"}, params : {None}]

IsList(method) == method \in {"tools/list", "resources/list"}

\* The registry a list method iterates, and what was last registered in it.
Listed(method) == IF method = "tools/list" THEN tools ELSE resources
LastPut(method) == IF method = "tools/list" THEN lastTool ELSE lastRes

\* The call is entered.  Beside the request and the names whose entries
\* are still to be read, the call remembers the registry it lists as it was
\* at entry (pre), what had last been registered under each name by then
\* (expect), and the registrations that complete while it runs (nreg, post).
DispatchBegin(c, request) ==
    /\ status[c] = "running"
    /\ disp[c].phase \in {"idle", "done"}
    /\ disp' = [disp EXCEPT ![c] =
                  IF IsList(request.method)
                  THEN [phase |-> "run", request |-> request,
                        todo |-> AllNames, view |-> EmptyReg,
                        pre |-> Listed(request.method),
                        expect |-> LastPut(request.method),
                        nreg |-> 0,
                        post |-> Listed(request.method)]
                  ELSE [phase |-> "run", request |-> request,
                        todo |-> {}, view |-> EmptyReg,
                        pre |-> EmptyReg, expect |-> EmptyReg,
                        nreg |-> 0, post |-> EmptyReg]]
    /\ UNCHANGED <<loopVars, sessVars, regVars, lastTool, lastRes>>

\* The iterator reaches the shard of name n and clones the value it finds.
DispatchVisit(c, n) ==
    /\ disp[c].phase = "run"
    /\ n \in disp[c].todo
    /\ LET reg == Listed(disp[c].request.method)
           seen == disp[c].view
       IN  disp' = [disp EXCEPT ![c].todo = @ \ {n},
                                ![c].view =
                                    IF n \in DOMAIN reg
                                    THEN [m \in DOMAIN seen \cup {n} |->
                                             IF m = n THEN reg[n] ELSE seen[m]]
                                    ELSE seen]
    /\ UNCHANGED <<loopVars, sessVars, regVars, lastTool, lastRes>>

\* The response is built: a list method from the entries the iterator
\* read, every other method without looking at a registry.
DispatchEnd(c) ==
    /\ disp[c].phase = "run"
    /\ disp[c].todo = {}
    /\ LET d == disp[c]
           response ==
               CASE d.request.method = "tools/list" ->
                       handle_mcp_request(d.request, d.view, resources)
                 [] d.request.method = "resources/list" ->
                       handle_mcp_request(d.request, tools, d.view)
                 [] OTHER ->
                       handle_mcp_request(d.request, tools, resources)
       IN  disp' = [disp EXCEPT ![c] =
                      [phase |-> "done", request |-> d.request,
                       response |-> response,
                       pre |-> d.pre, expect |-> d.expect,
                       nreg |-> d.nreg, post |-> d.post]]
    /\ UNCHANGED <<loopVars, sessVars, regVars, lastTool, lastRes>>

\* --------------------------------------------------------- specification
Reader(c) ==
    \/ ReadText(c)
    \/ ReadOther(c)
    \/ ReadClose(c)
    \/ ReadError(c)
    \/ ReadEof(c)

Writer(c) ==
    \/ WriterRecv(c)
    \/ WriterQueueClosed(c)
    \/ WriterSendOk(c)
    \/ WriterSendFail(c)

Next ==
    \/ BindOk
    \/ BindFail
    \/ Accept
    \/ AcceptError
    \/ \E c \in Conns : HandshakeOk(c)
    \/ \E c \in Conns : HandshakeFail(c)
    \/ \E c \in Conns : Reader(c)
    \/ \E c \in Conns : Writer(c)
    \/ \E n \in RegNames, v \in RegValues : register_tool(n, v)
    \/ \E n \in RegNames, v \in RegValues : register_resource(n, v)

Spec == Init /\ [][Next]_vars

\* The scheduler runs every writer task that can take a step.
FairSpec == Spec /\ \A c \in Conns : WF_vars(Writer(c))

\* Both connections accepted and open, nothing received yet.
Connected ==
    /\ listener = "listening"
    /\ naccepted = Cardinality(Conns)
    /\ status = [c \in Conns |-> "running"]
    /\ clients = Conns
    /\ tools = EmptyReg
    /\ resources = EmptyReg
    /\ queue = [c \in Conns |-> <<>>]
    /\ writer = [c \in Conns |-> "recv"]
    /\ held = [c \in Conns |-> <<>>]
    /\ wire = [c \in Conns |-> <<>>]
    /\ ndecoded = [c \in Conns |-> 0]
    /\ lastText = [c \in Conns |-> "none"]
    /\ disp = [c \in Conns |-> Idle]
    /\ lastTool = EmptyReg
    /\ lastRes = EmptyReg

\* One reader dispatching any request while the control surface registers
\* tools and resources under two names.
RegNext ==
    \/ \E n \in AllNames, v \in AllValues : register_tool(n, v)
    \/ \E n \in AllNames, v \in AllValues : register_resource(n, v)
    \/ \E r \in AllRequests : DispatchBegin(1, r)
    \/ \E n \in AllNames : DispatchVisit(1, n)
    \/ DispatchEnd(1)

RegSpec == Connected /\ [][RegNext]_vars

\* Both readers dispatching tools/list while the control surface registers
\* tools.
ConcNext ==
    \/ \E n \in AllNames, v \in AllValues : register_tool(n, v)
    \/ \E c \in Conns, r \in ListRequests : DispatchBegin(c, r)
    \/ \E c \in Conns, n \in AllNames : DispatchVisit(c, n)
    \/ \E c \in Conns : DispatchEnd(c)

ConcSpec == Connected /\ [][ConcNext]_vars

\* ------------------------------------------------------------ properties
Ended == {"closed", "error", "eof"}

\* The messages of session c that are on their way or written, oldest first.
Pipeline(c) == wire[c] \o held[c] \o queue[c]

SeqNos(q) == [i \in 1..Len(q) |-> q[i].seq]

\* C1: the responses on a session's transport are the answers to its
\* requests 1, 2, ... in that order with none repeated or left out; and as
\* long as the writer has not stopped, what is written, in flight and queued
\* is, in this order, the answers to all requests decoded so far.
C1_ResponsesInOrder ==
    \A c \in Conns :
        /\ SeqNos(wire[c]) = [i \in 1..Len(wire[c]) |-> i]
        /\ writer[c] \in {"recv", "send"} =>
               SeqNos(Pipeline(c)) = [i \in 1..ndecoded[c] |-> i]

C1_Witness == \E c \in Conns : Len(wire[c]) >= 2

\* C2: every message queued for, held by or written by a session's writer
\* answers a distinct request that this same session decoded, so a session
\* never emits more responses than it decoded requests.
C2_ResponseHasRequest ==
    \A c \in Conns :
        /\ \A i \in 1..Len(Pipeline(c)) :
               /\ Pipeline(c)[i].sess = c
               /\ Pipeline(c)[i].seq \in 1..ndecoded[c]
               /\ \A j \in 1..Len(Pipeline(c)) :
                      Pipeline(c)[i].seq = Pipeline(c)[j].seq => i = j
        /\ Len(Pipeline(c)) <= ndecoded[c]

C2_Witness ==
    \E c, d \in Conns :
        /\ c # d
        /\ {c, d} \subseteq clients
        /\ Len(wire[c]) >= 1
        /\ lastText[d] = "malformed"
        /\ ndecoded[d] = 0

\* C3: a text frame that does not decode changes nothing of any session
\* (no message is queued, the session keeps reading and keeps its entry);
\* and a request decoded right after such a frame is queued for the
\* session's writer like any other, as long as that writer is running.
C3_MalformedDropped ==
    [][\A c \in Conns :
          /\ (lastText[c] # "malformed" /\ lastText'[c] = "malformed") =>
                /\ queue' = queue /\ held' = held /\ wire' = wire
                /\ writer' = writer /\ ndecoded' = ndecoded
                /\ status[c] = "running" /\ status' = status
                /\ c \in clients /\ clients' = clients
          /\ (lastText[c] = "malformed" /\ ndecoded'[c] = ndecoded[c] + 1) =>
                /\ status'[c] = "running"
                /\ c \in clients'
                /\ writer[c] # "done" =>
                      /\ Len(queue'[c]) = Len(queue[c]) + 1
                      /\ queue'[c][Len(queue'[c])].seq = ndecoded'[c]
                      /\ queue'[c][Len(queue'[c])].sess = c]_vars

C3_Witness ==
    \E c \in Conns :
        /\ lastText[c] = "malformed"
        /\ status[c] = "running"
        /\ c \in clients
        /\ wire[c] # <<>>

\* C4: once a session's reader has processed a close frame the session has
\* no entry in the connection set, never gets one again, and no request is
\* decoded and no response queued for it any more.
C4_ClosedStaysRemoved ==
    [][\A c \in Conns :
          /\ status'[c] = "closed" => c \notin clients'
          /\ (writer[c] # "none" /\ c \notin clients) =>
                /\ c \notin clients'
                /\ ndecoded'[c] = ndecoded[c]
                /\ lastText'[c] = lastText[c]
                /\ Len(queue'[c]) <= Len(queue[c])]_vars

C4_Witness ==
    \E c, d \in Conns :
        /\ status[c] = "closed"
        /\ c \notin clients
        /\ d \in clients

\* C5: a session whose reader has terminated has no entry in the
\* connection set.
C5_EndedSessionRemoved ==
    \A c \in Conns : status[c] \in Ended => c \notin clients

\* C6: once a session has ended, its writer task eventually terminates.
C6_WriterTerminates ==
    \A c \in Conns : (status[c] \in Ended) ~> (writer[c] = "done")

\* C7 as stated: at the step that releases a session's sending handle,
\* its queue is empty or its writer has already stopped.
C7_ReleasedAfterDrain ==
    [][\A c \in Conns :
          (c \in clients /\ c \notin clients') =>
              (queue[c] = <<>> \/ writer[c] = "done")]_vars

\* C7 as amended: a session's sending handle is released only by the step
\* in which its own reader processes a close frame, whatever the queue
\* holds and whatever the writer does then; and it is inserted only when
\* the session starts, so it is never released a second time.
C7_ReleasedOnceByClose ==
    [][\A c \in Conns :
          /\ (c \in clients /\ c \notin clients') =>
                (status[c] = "running" /\ status'[c] = "closed")
          /\ (c \notin clients /\ c \in clients') =>
                (status[c] = "handshake" /\ writer[c] = "none")]_vars

C7_Witness ==
    \E c \in Conns :
        /\ status[c] = "closed"
        /\ c \notin clients
        /\ queue[c] # <<>>
        /\ writer[c] = "recv"

C9_TeardownIsLocal ==
    [][\A c \in Conns :
          (status[c] = "running" /\ status'[c] \in Ended) =>
              /\ \A d \in Conns \ {c} :
                    /\ (d \in clients') = (d \in clients)
                    /\ status'[d] = status[d]
                    /\ queue'[d] = queue[d]
                    /\ writer'[d] = writer[d]
                    /\ held'[d] = held[d]
                    /\ wire'[d] = wire[d]
                    /\ ndecoded'[d] = ndecoded[d]
                    /\ lastText'[d] = lastText[d]
              /\ tools' = tools
              /\ resources' = resources
              /\ listener' = listener
              /\ naccepted' = naccepted]_vars

C9_Witness ==
    \E c, d \in Conns :
        /\ status[c] \in Ended
        /\ status[d] = "running"
        /\ d \in clients
        /\ wire[d] # <<>>
        /\ DOMAIN tools # {}
        /\ DOMAIN resources # {}

\* C10: a failed handshake or a read error of a session leaves the accept
\* loop as it was, and a listening loop that is offered another connection
\* accepts it whatever the sessions are doing.
C10_LoopNeverBlocked ==
    /\ [](listener = "listening" /\ naccepted < Cardinality(Conns)
              => ENABLED Accept)
    /\ [][\A c \in Conns :
             (status'[c] # status[c] /\ status'[c] \in {"hs_failed", "error"})
                 => (listener' = listener /\ naccepted' = naccepted)]_vars

C10_Witness ==
    \E c, d \in Conns :
        /\ status[c] \in {"hs_failed", "error"}
        /\ status[d] = "running"
        /\ listener = "listening"

\* C11: whenever start_server has returned, it has returned an error.
C11_ReturnsOnlyError == StartServerResult \in {"pending", "Err"}

\* The values a finished list call returned, and how many names of a
\* registry hold the value v.
Items(d) ==
    IF d.request.method = "tools/list" THEN d.response.result.val.tools
                                       ELSE d.response.result.val.resources

Holders(reg, v) == Cardinality({n \in DOMAIN reg : reg[n] = v})

\* C12: each registry holds, under every name ever registered in it and
\* under no other, the definition registered last under that name, once; a
\* listing of it has as many copies of a value as there are names whose
\* last definition that value is.
C12_LastWriteWins ==
    /\ DOMAIN tools = DOMAIN lastTool
    /\ DOMAIN resources = DOMAIN lastRes
    /\ \A n \in DOMAIN lastTool : tools[n] = lastTool[n]
    /\ \A n \in DOMAIN lastRes : resources[n] = lastRes[n]
    /\ \A v \in AllValues :
          /\ CopiesIn(v, ListValues(tools)) = Holders(lastTool, v)
          /\ CopiesIn(v, ListValues(resources)) = Holders(lastRes, v)

\* a listing saw toolsA under one definition, one registration replaced
\* it, and toolsB is registered too
C12_Witness ==
    /\ disp[1].phase = "done"
    /\ disp[1].request.method = "tools/list"
    /\ disp[1].nreg = 1
    /\ "toolsA" \in DOMAIN disp[1].pre
    /\ disp[1].pre["toolsA"] = [name |-> "toolsA"]
    /\ tools = disp[1].post
    /\ tools["toolsA"] = [name |-> "other"]
    /\ "toolsB" \in DOMAIN tools

\* C13: a finished tools/list (resources/list) call carries no error and,
\* under the tools (resources) key alone, at least one value per name
\* registered before the call; when no registration completed during the
\* call it carries exactly, for every value, one copy per name whose last
\* registration before the call had that value (none at all when nothing
\* was ever registered).
C13_ListIsRegistry ==
    \A c \in Conns :
        (disp[c].phase = "done" /\ IsList(disp[c].request.method)) =>
            LET d == disp[c] IN
            /\ d.response.error = None
            /\ d.response.result.some
            /\ DOMAIN d.response.result.val =
                   (IF d.request.method = "tools/list" THEN {"tools"}
                                                       ELSE {"resources"})
            /\ BagToSet(Items(d)) \subseteq AllValues
            /\ BagCardinality(Items(d)) >= Cardinality(DOMAIN d.expect)
            /\ d.nreg = 0 =>
                  \A v \in AllValues : CopiesIn(v, Items(d)) = Holders(d.expect, v)

C13_Witness ==
    /\ disp[1].phase = "done"
    /\ disp[1].request.method = "tools/list"
    /\ disp[1].nreg = 0
    /\ DOMAIN disp[1].expect = AllNames
    /\ disp[1].expect["toolsA"] = disp[1].expect["toolsB"]
    /\ tools # disp[1].expect

\* C14: a tools/list call during which at most one registration of a tool
\* completed returns the listing of the registry as it was before that
\* registration or as it was after it.
C14_PreOrPostSnapshot ==
    \A c \in Conns :
        (disp[c].phase = "done" /\ disp[c].nreg <= 1) =>
            \/ Items(disp[c]) = ListValues(disp[c].pre)
            \/ Items(disp[c]) = ListValues(disp[c].post)

\* both readers listed across the same registration; one saw the registry
\* before it, the other after it
C14_Witness ==
    /\ disp[1].phase = "done" /\ disp[2].phase = "done"
    /\ disp[1].nreg = 1 /\ disp[2].nreg = 1
    /\ disp[1].pre = disp[2].pre
    /\ disp[1].post = disp[2].post
    /\ ListValues(disp[1].pre) # ListValues(disp[1].post)
    /\ Items(disp[1]) = ListValues(disp[1].pre)
    /\ Items(disp[2]) = ListValues(disp[2].post)

\* C16: every finished call carries the request's id as it came and
\* exactly one of result and error; and every call that was entered and
\* has read its entries can finish.
C16_WellFormedResponse ==
    \A c \in Conns :
        /\ disp[c].phase = "done" =>
              /\ disp[c].response.id = disp[c].request.id
              /\ disp[c].response.result.some # disp[c].response.error.some
        /\ (disp[c].phase = "run" /\ disp[c].todo = {}) => ENABLED DispatchEnd(c)

C16_Witness ==
    /\ disp[1].phase = "done"
    /\ disp[1].request.id = None
    /\ disp[1].response.error.some
    /\ DOMAIN tools # {}

\* C17: initialize, tools/call and resources/read always succeed with
\* their fixed payload, whatever the id, the params and the registries.
C17_FixedPayloads ==
    \A c \in Conns :
        disp[c].phase = "done" =>
            LET q == disp[c].request
                r == disp[c].response
            IN  /\ q.method = "initialize" =>
                      /\ r.error = None
                      /\ r.result.some
                      /\ r.result.val.protocolVersion = "2024-11-05"
                      /\ r.result.val.serverInfo =
                             [name |-> "katulong-mcp-host", version |-> "0.1.0"]
                      /\ r.result.val.capabilities.tools.listChanged
                      /\ r.result.val.capabilities.resources.listChanged
                /\ q.method = "tools/call" =>
                      /\ r.error = None
                      /\ r.result =
                             Some([content |-> << [type |-> "text",
                                  text |-> "Tool execution not implemented yet"] >>])
                /\ q.method = "resources/read" =>
                      /\ r.error = None
                      /\ r.result =
                             Some([contents |-> << [uri |-> "example://resource",
                                  mimeType |-> "text/plain",
                                  text |-> "Resource content not implemented yet"] >>])

C17_Witness ==
    /\ disp[1].phase = "done"
    /\ disp[1].request.method = "tools/call"
    /\ disp[1].request.params = None
    /\ disp[1].request.id = None
    /\ DOMAIN tools = AllNames
    /\ DOMAIN resources # {}

KnownMethods == {"initialize", "tools/list", "tools/call", "resources/list",
                 "resources/read"}

\* The step in which c's reader decodes a request and sends its response.
RequestStep(c) == ndecoded'[c] = ndecoded[c] + 1

\* A step of the call of handle_mcp_request c's reader is in.
DispatchStep(c) ==
    \/ disp'[c].phase # disp[c].phase
    \/ disp[c].phase = "run" /\ disp'[c].phase = "run"
           /\ disp'[c].todo # disp[c].todo

\* C15: the text sent for a request of an unknown method is the request's
\* id, a null result and an error of code -32601 whose message names the
\* method; and the step that answers a request (of an unknown method or
\* not) ends no session and removes no entry, and while the session's
\* writer runs it puts the response on the session's queue.
C15_UnknownMethodNotFatal ==
    /\ [](\A c \in Conns : \A i \in 1..Len(Pipeline(c)) :
             LET m == Pipeline(c)[i] IN
             m.req.method \notin KnownMethods =>
                 m.text = [id |-> JsonOf(m.req.id),
                           result |-> JNull,
                           error |-> [code |-> 0 - 32601,
                                      message |-> <<"Method not found: ",
                                                    m.req.method>>,
                                      data |-> JNull]])
    /\ [][\A c \in Conns :
             RequestStep(c) =>
                 /\ status' = status
                 /\ clients' = clients
                 /\ status[c] = "running"
                 /\ writer[c] # "done" =>
                       /\ Len(queue'[c]) = Len(queue[c]) + 1
                       /\ queue'[c][Len(queue'[c])].seq = ndecoded'[c]]_vars

\* an unknown method was answered on the wire, then a later request
C15_Witness ==
    \E c \in Conns :
        /\ Len(wire[c]) = 2
        /\ wire[c][1].req.method = "unknown/method"
        /\ wire[c][2].req.method = "tools/list"
        /\ status[c] = "running"
        /\ c \in clients

\* C18: a step of a reader that handles a request changes neither registry
\* nor the connection set; a step that changes the tools registry is a
\* registration of a tool, which changes nothing of the resources registry,
\* the sessions or the loop, and likewise for the resources registry.
C18_DispatchReadOnly ==
    [][/\ \A c \in Conns :
             (RequestStep(c) \/ DispatchStep(c)) =>
                 (tools' = tools /\ resources' = resources /\ clients' = clients)
       /\ tools' # tools =>
             /\ lastTool' = tools'
             /\ UNCHANGED <<resources, lastRes, sessVars, loopVars>>
       /\ resources' # resources =>
             /\ lastRes' = resources'
             /\ UNCHANGED <<tools, lastTool, sessVars, loopVars>>]_vars

C18_Witness ==
    \E c \in Conns :
        /\ wire[c] # <<>>
        /\ wire[c][1].req.method = "tools/list"
        /\ wire[c][1].text.result = [tools |-> ListValues(tools)]
        /\ DOMAIN tools # {}
        /\ DOMAIN resources = {}
        /\ c \in clients

\* C19: a session whose reader is in its loop has its entry in the
\* connection set, so every lookup the reader makes to send a response
\* finds it; the entry leaves the set only in a step of that reader which
\* also leaves the loop.
C19_LookupNeverMisses ==
    /\ [](\A c \in Conns : status[c] = "running" => c \in clients)
    /\ [][\A c \in Conns :
             /\ RequestStep(c) => (c \in clients /\ c \in clients')
             /\ (c \in clients /\ c \notin clients') =>
                   (status[c] = "running" /\ status'[c] # "running")]_vars

C19_Witness ==
    \E c, d \in Conns :
        /\ c # d
        /\ ndecoded[c] = 1 /\ ndecoded[d] = 1
        /\ status[d] = "closed"
        /\ c \in clients
        /\ Len(wire[c]) = 1

\* C20: under fair scheduling of the writers, the response to the k-th
\* request a session decoded is eventually on the session's transport,
\* unless its writer stops first (a transport write failed, or the session
\* was closed).
C20_EventuallyAnswered ==
    \A c \in Conns : \A k \in 1..MaxReqs :
        (ndecoded[c] >= k) ~> (Len(wire[c]) >= k \/ writer[c] = "done")

C20_Witness ==
    \E c, d \in Conns :
        /\ c # d
        /\ ndecoded[c] = 1 /\ Len(wire[c]) = 1
        /\ ndecoded[d] = 1 /\ wire[d] = <<>> /\ status[d] = "running"
        /\ DOMAIN tools # {}

====
